---- MODULE Spec2Model ----
(***************************************************************************)
(* Model of server.py: a thread-per-connection HTTP(S) server for static   *)
(* files.  Strings are sequences of one-character strings, so that         *)
(* splitting, query stripping, percent-decoding and path resolution are    *)
(* computed the way the code and the operating system compute them.        *)
(***************************************************************************)
EXTENDS Integers, Sequences, FiniteSets, TLC

(***************************************************************************)
(* Bounds of the model.                                                    *)
(***************************************************************************)
\* number of connections the listener accepts in one behaviour
MaxConns == 2
\* number of faults (raised exceptions) injected into one handler
MaxFaults == 2

(***************************************************************************)
(* Program constants.                                                      *)
(***************************************************************************)
\* handler.read(1024)
ChunkSize == 1024

\* self.directory = 'www'
directory == <<"w", "w", "w">>

\* the default document of load_file
IndexHtml == <<"/", "i", "n", "d", "e", "x", ".", "h", "t", "m", "l">>

GET == <<"G", "E", "T">>

(***************************************************************************)
(* Strings.                                                                *)
(***************************************************************************)
\* the characters str.split() treats as separators
Whitespace == {" ", "\t", "\n", "\r"}

Min(a, b) == IF a < b THEN a ELSE b

\* s[i..]
Drop(s, n) == SubSeq(s, n + 1, Len(s))

\* position of the first ch in s, 0 when there is none
RECURSIVE IndexFrom(_, _, _)
IndexFrom(s, ch, i) ==
    IF i > Len(s) THEN 0
    ELSE IF s[i] = ch THEN i
    ELSE IndexFrom(s, ch, i + 1)

\* s.split(ch): the pieces of s between the occurrences of ch (never empty)
RECURSIVE SplitOn(_, _)
SplitOn(s, ch) ==
    LET i == IndexFrom(s, ch, 1) IN
    IF i = 0 THEN <<s>>
    ELSE <<SubSeq(s, 1, i - 1)>> \o SplitOn(Drop(s, i), ch)

\* s.split(): the maximal runs of non-whitespace characters of s
RECURSIVE SplitWords(_, _)
SplitWords(s, cur) ==
    IF s = <<>> THEN (IF cur = <<>> THEN <<>> ELSE <<cur>>)
    ELSE IF s[1] \in Whitespace
         THEN (IF cur = <<>> THEN <<>> ELSE <<cur>>) \o SplitWords(Tail(s), <<>>)
         ELSE SplitWords(Tail(s), Append(cur, s[1]))

HexDigits == {"0", "1", "2", "3", "4", "5", "6", "7", "8", "9",
              "a", "b", "c", "d", "e", "f", "A", "B", "C", "D", "E", "F"}

HexVal(ch) ==
    CASE ch = "0" -> 0 [] ch = "1" -> 1 [] ch = "2" -> 2 [] ch = "3" -> 3
      [] ch = "4" -> 4 [] ch = "5" -> 5 [] ch = "6" -> 6 [] ch = "7" -> 7
      [] ch = "8" -> 8 [] ch = "9" -> 9
      [] ch \in {"a", "A"} -> 10 [] ch \in {"b", "B"} -> 11
      [] ch \in {"c", "C"} -> 12 [] ch \in {"d", "D"} -> 13
      [] ch \in {"e", "E"} -> 14 [] ch \in {"f", "F"} -> 15

\* chr(n) for the byte values the model's alphabet has; any other byte is
\* the one character "#"
Chr(n) ==
    CASE n = 32 -> " "
      [] n = 46 -> "."
      [] n = 47 -> "/"
      [] n = 63 -> "?"
      [] n = 97 -> "a"
      [] n = 115 -> "s"
      [] OTHER -> "#"

\* urllib.unquote: every % followed by two hex digits becomes the byte they
\* name; any other % stays as it is; decoded characters are not decoded again
RECURSIVE unquote(_)
unquote(s) ==
    IF s = <<>> THEN <<>>
    ELSE IF s[1] = "%" /\ Len(s) >= 3 /\ s[2] \in HexDigits /\ s[3] \in HexDigits
         THEN <<Chr(16 * HexVal(s[2]) + HexVal(s[3]))>> \o unquote(Drop(s, 3))
         ELSE <<s[1]>> \o unquote(Tail(s))

DecimalDigits == <<"0", "1", "2", "3", "4", "5", "6", "7", "8", "9">>

\* repr(n) of a plain int n >= 0: its decimal digits
RECURSIVE repr(_)
repr(n) ==
    IF n < 10 THEN <<DecimalDigits[n + 1]>>
    ELSE repr(n \div 10) \o <<DecimalDigits[(n % 10) + 1]>>

\* results of a call that either returns a value or raises
Return(v) == [ok |-> TRUE, val |-> v]
Raise == [ok |-> FALSE]

(***************************************************************************)
(* Request Parser.                                                         *)
(***************************************************************************)
\* parse_GET without the test of the method: the second word of any line
parse_GET_any_method(line) ==
    LET request == SplitWords(line, <<>>) IN
    IF Len(request) < 2 THEN Raise
    ELSE Return(unquote(SplitOn(request[2], "?")[1]))

\* parse_GET decoding the raw path before cutting it at the first '?'
parse_GET_unquote_first(line) ==
    LET request == SplitWords(line, <<>>) IN
    IF Len(request) = 0 THEN Raise
    ELSE IF request[1] = GET
         THEN IF Len(request) < 2 THEN Raise
              ELSE Return(SplitOn(unquote(request[2]), "?")[1])
         ELSE Raise

\* parse_GET applied to the line readline() returned
parse_GET(line) ==
    LET request == SplitWords(line, <<>>) IN
    IF Len(request) = 0 THEN Raise                 \* request[0]: IndexError
    ELSE IF request[1] = GET
         THEN IF Len(request) < 2 THEN Raise       \* request[1]: IndexError
              ELSE Return(unquote(SplitOn(request[2], "?")[1]))
         ELSE Raise                                \* the bare raise

(***************************************************************************)
(* The filesystem: a function from locations to nodes.  A location is the  *)
(* sequence of names leading from the working directory (the empty         *)
(* location) to the node; r and x are what os.access answers for R_OK and  *)
(* X_OK.                                                                   *)
(***************************************************************************)
File(r, x, size) == [kind |-> "file", r |-> r, x |-> x, size |-> size]
Dir(r, x) == [kind |-> "dir", r |-> r, x |-> x, size |-> 0]

DotDot == <<".", ".">>

IndexName == Tail(IndexHtml)

Cwd == <<>>

\* the working directory holds the served root www, a file s that is not
\* served, and in FS2 a file wwws beside the root
FS1 ==
    (Cwd :> Dir(TRUE, TRUE))
    @@ (<<directory>> :> Dir(TRUE, TRUE))
    @@ (<<directory, IndexName>> :> File(TRUE, FALSE, 1024))
    @@ (<<directory, <<"a">>>> :> File(TRUE, FALSE, 1025))
    @@ (<<directory, <<"x">>>> :> File(TRUE, TRUE, 5))
    @@ (<<directory, <<"p">>>> :> File(FALSE, FALSE, 7))
    @@ (<<directory, <<"d">>>> :> Dir(TRUE, FALSE))
    @@ (<<<<"s">>>> :> File(TRUE, FALSE, 3))

FS2 ==
    (Cwd :> Dir(TRUE, TRUE))
    @@ (<<directory>> :> Dir(TRUE, TRUE))
    @@ (<<directory, <<"a">>>> :> File(TRUE, FALSE, 0))
    @@ (<<directory, <<"x">>>> :> File(FALSE, TRUE, 5))
    @@ (<<directory, <<"d">>>> :> Dir(TRUE, TRUE))
    @@ (<<<<"s">>>> :> File(TRUE, FALSE, 3))
    @@ (<<directory \o <<"s">>>> :> File(TRUE, FALSE, 2))

FileSystems == {FS1, FS2}

\* the directory above a location
Parent(loc) ==
    IF loc = <<>> \/ loc[Len(loc)] = DotDot THEN Append(loc, DotDot)
    ELSE SubSeq(loc, 1, Len(loc) - 1)

\* the operating system's walk along the segments of a relative path: every
\* directory walked through must exist and be searchable
RECURSIVE Walk(_, _, _, _)
Walk(f, segs, i, cur) ==
    IF i > Len(segs) THEN [found |-> cur \in DOMAIN f, loc |-> cur]
    ELSE IF ~(cur \in DOMAIN f /\ f[cur].kind = "dir" /\ f[cur].x)
         THEN [found |-> FALSE, loc |-> cur]
    ELSE IF segs[i] = <<>> \/ segs[i] = <<".">> THEN Walk(f, segs, i + 1, cur)
    ELSE IF segs[i] = DotDot THEN Walk(f, segs, i + 1, Parent(cur))
    ELSE Walk(f, segs, i + 1, Append(cur, segs[i]))

\* the node a relative path names
Resolve(f, path) == Walk(f, SplitOn(path, "/"), 1, Cwd)

\* a location is under the served root when the walk ended inside www
UnderRoot(loc) == Len(loc) >= 1 /\ loc[1] = directory

(***************************************************************************)
(* Response Formatter.  What is written to a socket is a sequence of       *)
(* pieces: a header block, an error page, or a range of a file's bytes.    *)
(***************************************************************************)
\* mimetypes.guess_type by extension, "unknown" when it has none to offer
MIME_types(filename) ==
    LET n == Len(filename) IN
    IF n >= 5 /\ SubSeq(filename, n - 4, n) = <<".", "h", "t", "m", "l">>
    THEN "text/html" ELSE "unknown"

\* time.strftime of the current time
timestamp == "Thu, 01 Jan 1970 00:00:00"

ServerName == "Python HTTP GET server/0.1"

\* generate_error_HTML: the page for a code; raises when msg is unassigned
generate_error_HTML(code) ==
    CASE code = 404 -> Return([kind |-> "html", msg |-> "The page you requested was not found.  "])
      [] code = 403 -> Return([kind |-> "html", msg |-> "You do not have access to that file on the server.  "])
      [] code = 405 -> Return([kind |-> "html", msg |-> "Please send a valid GET request.  "])
      [] code = 500 -> Return([kind |-> "html", msg |-> "The server has made an error.  "])
      [] OTHER -> Raise

\* len(html) of an error page
HtmlLen(code) ==
    CASE code = 404 -> 188 [] code = 403 -> 201 [] code = 405 -> 183
      [] code = 500 -> 180 [] OTHER -> 0

\* the status line of generate_headers, <<>> when header_status is unassigned
header_status(code) ==
    CASE code = 200 -> <<"HTTP/1.1 200 OK">>
      [] code = 403 -> <<"HTTP/1.1 403 Forbidden">>
      [] code = 404 -> <<"HTTP/1.1 404 Not Found">>
      [] code = 405 -> <<"HTTP/1.1 405 Method Not Allowed">>
      [] code = 500 -> <<"HTTP/1.1 500 Internal Server Error">>
      [] OTHER -> <<>>

\* generate_headers setting Date and Server inside its code==200 branch only
generate_headers_common_on_200(code, file_size, filename) ==
    LET common == ("Date" :> timestamp) @@ ("Server" :> ServerName)
        headers == IF code = 200
                   THEN ("Content-Type" :> MIME_types(filename))
                        @@ ("Content-Length" :> repr(file_size)) @@ common
                   ELSE [h \in {} |-> ""]
    IN IF header_status(code) = <<>> THEN Raise
       ELSE Return([kind |-> "headers", code |-> code,
                    line |-> header_status(code)[1], headers |-> headers])

\* generate_headers: status line and the headers dictionary
generate_headers(code, file_size, filename) ==
    LET common == ("Date" :> timestamp) @@ ("Server" :> ServerName)
        headers == IF code = 200
                   THEN ("Content-Type" :> MIME_types(filename))
                        @@ ("Content-Length" :> repr(file_size)) @@ common
                   ELSE common
    IN IF header_status(code) = <<>> THEN Raise
       ELSE Return([kind |-> "headers", code |-> code,
                    line |-> header_status(code)[1], headers |-> headers])

(***************************************************************************)
(* Path Resolver.                                                          *)
(***************************************************************************)
\* full_path without the default document: '/' is used as it is
full_path_no_default(filename) == directory \o filename

\* the path load_file hands to the operating system
full_path(filename) ==
    directory \o (IF filename = <<"/">> THEN IndexHtml ELSE filename)

\* load_file without the os.access(full_path, os.X_OK)==False test
load_file_ignores_x(f, filename) ==
    LET t == Resolve(f, full_path(filename)) IN
    IF ~t.found
    THEN [ok |-> TRUE, handler |-> generate_error_HTML(404).val,
          file_size |-> HtmlLen(404), status |-> 404, opened |-> <<>>]
    ELSE IF f[t.loc].r
    THEN IF f[t.loc].kind = "file"
         THEN [ok |-> TRUE, handler |-> [kind |-> "file", loc |-> t.loc],
               file_size |-> f[t.loc].size, status |-> 200, opened |-> <<t.loc>>]
         ELSE [ok |-> FALSE, opened |-> <<>>]
    ELSE [ok |-> TRUE, handler |-> generate_error_HTML(403).val,
          file_size |-> HtmlLen(403), status |-> 403, opened |-> <<>>]

\* load_file reporting a missing file with a status of its own, 410
load_file_gone(f, filename) ==
    LET t == Resolve(f, full_path(filename)) IN
    IF ~t.found
    THEN [ok |-> TRUE, handler |-> generate_error_HTML(404).val,
          file_size |-> HtmlLen(404), status |-> 410, opened |-> <<>>]
    ELSE IF f[t.loc].r /\ ~f[t.loc].x
    THEN IF f[t.loc].kind = "file"
         THEN [ok |-> TRUE, handler |-> [kind |-> "file", loc |-> t.loc],
               file_size |-> f[t.loc].size, status |-> 200, opened |-> <<t.loc>>]
         ELSE [ok |-> FALSE, opened |-> <<>>]
    ELSE [ok |-> TRUE, handler |-> generate_error_HTML(403).val,
          file_size |-> HtmlLen(403), status |-> 403, opened |-> <<>>]

\* load_file: the returned triple, or a raise; opened is the location of the
\* file it opened, <<>> when it opened none
load_file(f, filename) ==
    LET t == Resolve(f, full_path(filename)) IN
    IF ~t.found
    THEN [ok |-> TRUE, handler |-> generate_error_HTML(404).val,
          file_size |-> HtmlLen(404), status |-> 404, opened |-> <<>>]
    ELSE IF f[t.loc].r /\ ~f[t.loc].x
    THEN IF f[t.loc].kind = "file"
         THEN [ok |-> TRUE, handler |-> [kind |-> "file", loc |-> t.loc],
               file_size |-> f[t.loc].size, status |-> 200, opened |-> <<t.loc>>]
         ELSE [ok |-> FALSE, opened |-> <<>>]      \* open() of a directory
    ELSE [ok |-> TRUE, handler |-> generate_error_HTML(403).val,
          file_size |-> HtmlLen(403), status |-> 403, opened |-> <<>>]

(***************************************************************************)
(* The clients.  A client either sends a first line (the empty line is a   *)
(* client that closes without sending) or sends nothing and keeps the      *)
(* connection open.                                                        *)
(***************************************************************************)
SP == <<" ">>
EOL == <<"\r", "\n">>
HTTP11 == <<"H", "T", "T", "P", "/", "1", ".", "1">>

\* "<method> <path> HTTP/1.1\r\n"
RequestLine(method, path) == method \o SP \o path \o SP \o HTTP11 \o EOL

POST == <<"P", "O", "S", "T">>

GetLines ==
    { RequestLine(GET, <<"/">>),
      RequestLine(GET, <<"/", "a">>),
      RequestLine(GET, <<"/", "x", "?", "a">>),
      RequestLine(GET, <<"/", "p">>),
      RequestLine(GET, <<"/", "d">>),
      RequestLine(GET, <<"/", ".", ".", "/", "s">>),
      RequestLine(GET, <<"/", "%", "2", "e", "%", "2", "E", "/", "s">>),
      RequestLine(GET, <<"s">>) }

OtherLines ==
    { RequestLine(POST, <<"/", "a">>),
      RequestLine(POST, <<"/", "x">>),
      RequestLine(POST, <<"/", "n", "o">>),
      RequestLine(<<"g", "e", "t">>, <<"/">>) }

\* no byte at all, an empty line, a GET with no path
MalformedLines == { <<>>, EOL, GET \o EOL }

RequestLines == GetLines \cup OtherLines \cup MalformedLines

\* parse_GET of every line a client of the model sends, computed once
ParsedLine == [line \in RequestLines |-> parse_GET(line)]

\* the paths parse_GET returns for those lines
RequestPaths == {ParsedLine[line].val : line \in {l \in RequestLines : ParsedLine[l].ok}}

\* load_file of every such path on every filesystem, computed once
LoadedFile == [f \in FileSystems, filename \in RequestPaths |-> load_file(f, filename)]

\* generate_headers of what load_file returned for the path, computed once
LoadedHeaders ==
    [f \in FileSystems, filename \in RequestPaths |->
        IF LoadedFile[f, filename].ok
        THEN generate_headers(LoadedFile[f, filename].status,
                              LoadedFile[f, filename].file_size, filename)
        ELSE Raise]

(***************************************************************************)
(* State.                                                                  *)
(***************************************************************************)
VARIABLES
    main,      \* the main thread: "start", "bind_failed" (in the except clause
               \* of start_server), "wait_loop", "wrap_socket",
               \* "exited" (sys.exit), "crashed" (an uncaught exception)
    listener,  \* self.socket: "unbound" or "bound"
    secure,    \* self.secure
    fs,        \* the filesystem
    accepted,  \* number of connections accept() has returned
    sock,      \* per connection: the accepted socket and what was written to it
    conn       \* per connection: its client and its handler thread's locals

vars == <<main, listener, secure, fs, accepted, sock, conn>>

Conns == 1..MaxConns

\* a socket accept() has not returned yet
NoSock == [state |-> "none", closes |-> 0, sent |-> <<>>]

\* a connection not yet accepted; unassigned locals are <<>>, 0 or "none"
IdleConn ==
    [pc |-> "idle", stall |-> FALSE, line |-> <<>>,
     filename |-> <<>>, status |-> 0, file_size |-> 0,
     handler |-> [kind |-> "none"], header |-> [kind |-> "none"],
     data |-> [kind |-> "none"], pos |-> 0, fopen |-> <<>>, opened |-> <<>>,
     log |-> <<>>, faults |-> <<>>]

Init ==
    /\ main = "start"
    /\ listener = "unbound"
    /\ secure \in BOOLEAN
    /\ fs \in FileSystems
    /\ accepted = 0
    /\ sock = [c \in Conns |-> NoSock]
    /\ conn = [c \in Conns |-> IdleConn]

\* the process is alive: its threads run
Alive == main \in {"start", "bind_failed", "wait_loop", "wrap_socket"}

\* an injected fault: the call at this site may raise
MayFault(c) == {FALSE} \cup (IF Len(conn[c].faults) < MaxFaults THEN {TRUE} ELSE {})

\* the handler's record after a call raised: an injected fault is noted
Faulted(r, fault, site) == IF fault THEN [r EXCEPT !.faults = Append(@, site)] ELSE r

\* the handler thread of connection c changes its own locals
Set(c, r) == conn' = [conn EXCEPT ![c] = r]

\* the socket kept in one place shared by all handlers: the last accepted
SockOf_latest(c) == accepted

\* the socket the handler of connection c was started with
SockOf(c) == c

(***************************************************************************)
(* Listener Loop.                                                          *)
(***************************************************************************)
\* start_server, lines 48-51 and 55: bind succeeds and wait_loop starts, or
\* bind raises and the except clause is entered
start_server ==
    /\ main = "start"
    /\ \E bindOk \in BOOLEAN :
          IF bindOk
          THEN main' = "wait_loop" /\ listener' = "bound"
          ELSE main' = "bind_failed" /\ UNCHANGED listener
    /\ UNCHANGED <<secure, fs, accepted, sock, conn>>

\* stop_server with no try around the shutdown: its exception propagates
stop_server_ends_unguarded(shutdownRaises) ==
    IF shutdownRaises THEN "crashed" ELSE "exited"

\* lines 58-63: what raises inside the try is swallowed, then sys.exit(1)
stop_server_ends(shutdownRaises) == "exited"

\* stop_server, called by the except clause of start_server (line 54) or as
\* the SIGINT handler: shutdown of self.socket, which raises on a socket
\* that is not bound and may raise on a listening one, then sys.exit in the
\* main thread, which ends the process and its threads
stop_server ==
    /\ main \in {"bind_failed", "wait_loop", "wrap_socket"}
    /\ \E shutdownRaises \in BOOLEAN :
          /\ listener = "unbound" => shutdownRaises
          /\ main' = stop_server_ends(shutdownRaises)
    /\ UNCHANGED <<listener, secure, fs, accepted, sock, conn>>

\* thread.start_new_thread(self.serve_request, (sock, addr))
Dispatch(c) == [conn EXCEPT ![c].pc = "parse"]

\* wait_loop: accept() returns the next connection; in plain mode it is
\* dispatched at once, in secure mode ssl.wrap_socket comes first
accept ==
    /\ main = "wait_loop"
    /\ accepted < MaxConns
    /\ accepted' = accepted + 1
    /\ sock' = [sock EXCEPT ![accepted + 1].state = "open"]
    /\ \E stall \in BOOLEAN, line \in RequestLines :
          LET c == accepted + 1
              cl == [conn EXCEPT ![c] = [@ EXCEPT !.pc = "accepted",
                                                  !.stall = stall,
                                                  !.line = line]]
          IN  /\ stall => line = <<>>
              /\ IF secure
                 THEN /\ conn' = cl
                      /\ main' = "wrap_socket"
                 ELSE /\ conn' = [cl EXCEPT ![c].pc = "parse"]
                      /\ main' = "wait_loop"
    /\ UNCHANGED <<listener, secure, fs>>

\* ssl.wrap_socket in the main thread: the handshake completes and the
\* connection is dispatched, or it raises and nothing in wait_loop or
\* start_server catches it
wrap_socket ==
    /\ main = "wrap_socket"
    /\ \E handshakeOk \in BOOLEAN :
          IF handshakeOk
          THEN /\ conn' = Dispatch(accepted)
               /\ main' = "wait_loop"
          ELSE /\ main' = "crashed"
               /\ UNCHANGED conn
    /\ UNCHANGED <<listener, secure, fs, accepted, sock>>

(***************************************************************************)
(* Connection Handler: serve_request, one action per step of its code.     *)
(* "done" is the thread returning, "dead" the thread ended by an exception *)
(* nothing caught.                                                         *)
(***************************************************************************)
\* one log line
LogLine(path, status) == [path |-> path, status |-> status]

NonGetLog == [path |-> <<"non-GET">>, status |-> 405]

\* the error response without its page
ErrorResponse_headers_only(code) == <<generate_headers(code, 0, <<>>).val>>

\* the 405 and the 500 response: generate_headers(code,0,'') + generate_error_HTML(code)
ErrorResponse(code) ==
    <<generate_headers(code, 0, <<>>).val, generate_error_HTML(code).val>>

\* sock.send(pieces) returns: no fault, and the socket is open
CanSend(c, fault) == ~fault /\ sock[SockOf(c)].state = "open"

\* sock.send(pieces)
Send(c, pieces) == sock' = [sock EXCEPT ![SockOf(c)].sent = @ \o pieces]

\* sock.close() returning normally; or raising, with the socket closed by
\* then or not
CloseSock(c, fault, closedAnyway) ==
    sock' = [sock EXCEPT ![SockOf(c)] =
                IF ~fault \/ closedAnyway
                THEN [@ EXCEPT !.state = "closed", !.closes = @ + 1]
                ELSE @]

\* the print of line 103: it reads filename and status, and ends the thread
\* with a NameError when status was never assigned
LogRequest(r) ==
    IF r.status = 0 THEN [r EXCEPT !.pc = "dead"]
    ELSE [r EXCEPT !.pc = "done",
                   !.log = Append(@, LogLine(r.filename[1], r.status))]

\* line 75: parse_GET on the line the client sent; a client that sends
\* nothing and stays connected leaves readline blocked
Parse(c) ==
    LET r == conn[c]
        p == ParsedLine[r.line]
    IN  /\ Alive /\ r.pc = "parse" /\ ~r.stall
        /\ Set(c, IF p.ok
                  THEN [r EXCEPT !.pc = "load", !.filename = <<p.val>>]
                  ELSE [r EXCEPT !.pc = "e405_send"])
        /\ UNCHANGED <<main, listener, secure, fs, accepted, sock>>

\* lines 78-79: build and send the 405 response; an exception here is
\* raised inside the except clause and ends the thread
E405Send(c) ==
    LET r == conn[c] IN
    /\ Alive /\ r.pc = "e405_send"
    /\ \E fault \in MayFault(c) :
          IF CanSend(c, fault)
          THEN /\ Send(c, ErrorResponse(405))
               /\ Set(c, [r EXCEPT !.pc = "e405_close"])
          ELSE /\ Set(c, [Faulted(r, fault, "send") EXCEPT !.pc = "dead"])
               /\ UNCHANGED sock
    /\ UNCHANGED <<main, listener, secure, fs, accepted>>

\* lines 80-82: close, log, return
E405Close(c) ==
    LET r == conn[c] IN
    /\ Alive /\ r.pc = "e405_close"
    /\ \E fault \in MayFault(c), closedAnyway \in BOOLEAN :
          /\ ~fault => ~closedAnyway
          /\ CloseSock(c, fault, closedAnyway)
          /\ Set(c, IF ~fault
                    THEN [r EXCEPT !.pc = "done", !.log = Append(@, NonGetLog)]
                    ELSE [Faulted(r, fault, "close") EXCEPT !.pc = "dead"])
    /\ UNCHANGED <<main, listener, secure, fs, accepted>>

\* line 84: load_file; a fault raises before the open or after it (getsize)
Load(c) ==
    LET r == conn[c]
        l == LoadedFile[fs, r.filename[1]]
    IN  /\ Alive /\ r.pc = "load"
        /\ \E fault \in MayFault(c), afterOpen \in BOOLEAN :
              /\ ~fault => ~afterOpen
              /\ afterOpen => l.opened # <<>>
              /\ Set(c, IF fault
                        THEN [Faulted(r, fault, "load_file") EXCEPT
                                 !.pc = "e500_send",
                                 !.fopen = IF afterOpen THEN l.opened ELSE @,
                                 !.opened = IF afterOpen THEN l.opened ELSE @]
                        ELSE IF ~l.ok
                        THEN [r EXCEPT !.pc = "e500_send"]
                        ELSE [r EXCEPT !.pc = "genhdr",
                                       !.handler = l.handler,
                                       !.file_size = l.file_size,
                                       !.status = l.status,
                                       !.fopen = l.opened,
                                       !.opened = l.opened])
        /\ UNCHANGED <<main, listener, secure, fs, accepted, sock>>

\* line 85: generate_headers(status, file_size, filename)
GenHeaders(c) ==
    LET r == conn[c]
        h == LoadedHeaders[fs, r.filename[1]]
    IN  /\ Alive /\ r.pc = "genhdr"
        /\ \E fault \in MayFault(c) :
              Set(c, IF fault \/ ~h.ok
                     THEN [Faulted(r, fault, "generate_headers") EXCEPT !.pc = "e500_send"]
                     ELSE [r EXCEPT !.pc = "sendhdr", !.header = h.val])
        /\ UNCHANGED <<main, listener, secure, fs, accepted, sock>>

\* lines 86-87: sock.send(header), then the branch on status
SendHeader(c) ==
    LET r == conn[c] IN
    /\ Alive /\ r.pc = "sendhdr"
    /\ \E fault \in MayFault(c) :
          IF CanSend(c, fault)
          THEN /\ Send(c, <<r.header>>)
               /\ Set(c, [r EXCEPT !.pc = IF r.status = 200 THEN "read" ELSE "sendhtml"])
          ELSE /\ Set(c, [Faulted(r, fault, "send") EXCEPT !.pc = "e500_send"])
               /\ UNCHANGED sock
    /\ UNCHANGED <<main, listener, secure, fs, accepted>>

\* handler.read() with no size: all that is left of the file
ReadLen_whole(size, pos) == size - pos

\* handler.read(1024): the number of bytes it returns at position pos of a
\* file of the given size
ReadLen(size, pos) == Min(ChunkSize, size - pos)

\* lines 90-92 and 94: handler.read(1024); at end of file leave the loop and
\* close the file
Read(c) ==
    LET r == conn[c]
        n == ReadLen(fs[r.handler.loc].size, r.pos)
    IN  /\ Alive /\ r.pc = "read"
        /\ \E fault \in MayFault(c) :
              Set(c, IF fault
                     THEN [Faulted(r, fault, "read") EXCEPT !.pc = "e500_send"]
                     ELSE IF n = 0
                     THEN [r EXCEPT !.pc = "close", !.fopen = <<>>,
                                    !.data = [kind |-> "none"]]
                     ELSE [r EXCEPT !.pc = "sendchunk", !.pos = @ + n,
                                    !.data = [kind |-> "data", loc |-> r.handler.loc,
                                              off |-> r.pos, len |-> n]])
        /\ UNCHANGED <<main, listener, secure, fs, accepted, sock>>

\* line 93: sock.send(data)
SendChunk(c) ==
    LET r == conn[c] IN
    /\ Alive /\ r.pc = "sendchunk"
    /\ \E fault \in MayFault(c) :
          IF CanSend(c, fault)
          THEN /\ Send(c, <<r.data>>)
               /\ Set(c, [r EXCEPT !.pc = "read"])
          ELSE /\ Set(c, [Faulted(r, fault, "send") EXCEPT !.pc = "e500_send"])
               /\ UNCHANGED sock
    /\ UNCHANGED <<main, listener, secure, fs, accepted>>

\* line 96: sock.send(handler), the error page
SendHtml(c) ==
    LET r == conn[c] IN
    /\ Alive /\ r.pc = "sendhtml"
    /\ \E fault \in MayFault(c) :
          IF CanSend(c, fault)
          THEN /\ Send(c, <<r.handler>>)
               /\ Set(c, [r EXCEPT !.pc = "close"])
          ELSE /\ Set(c, [Faulted(r, fault, "send") EXCEPT !.pc = "e500_send"])
               /\ UNCHANGED sock
    /\ UNCHANGED <<main, listener, secure, fs, accepted>>

\* lines 97 and 103: sock.close() inside the try, then the log line
Close(c) ==
    LET r == conn[c] IN
    /\ Alive /\ r.pc = "close"
    /\ \E fault \in MayFault(c), closedAnyway \in BOOLEAN :
          /\ ~fault => ~closedAnyway
          /\ CloseSock(c, fault, closedAnyway)
          /\ Set(c, IF ~fault
                    THEN LogRequest(r)
                    ELSE [Faulted(r, fault, "close") EXCEPT !.pc = "e500_send"])
    /\ UNCHANGED <<main, listener, secure, fs, accepted>>

\* lines 99-100: build and send the 500 response; an exception here is
\* raised inside the except clause and ends the thread
E500Send(c) ==
    LET r == conn[c] IN
    /\ Alive /\ r.pc = "e500_send"
    /\ \E fault \in MayFault(c) :
          IF CanSend(c, fault)
          THEN /\ Send(c, ErrorResponse(500))
               /\ Set(c, [r EXCEPT !.pc = "e500_close"])
          ELSE /\ Set(c, [Faulted(r, fault, "send") EXCEPT !.pc = "dead"])
               /\ UNCHANGED sock
    /\ UNCHANGED <<main, listener, secure, fs, accepted>>

\* lines 101 and 103: sock.close() of the except clause, then the log line
E500Close(c) ==
    LET r == conn[c] IN
    /\ Alive /\ r.pc = "e500_close"
    /\ \E fault \in MayFault(c), closedAnyway \in BOOLEAN :
          /\ ~fault => ~closedAnyway
          /\ CloseSock(c, fault, closedAnyway)
          /\ Set(c, IF ~fault
                    THEN LogRequest(r)
                    ELSE [Faulted(r, fault, "close") EXCEPT !.pc = "dead"])
    /\ UNCHANGED <<main, listener, secure, fs, accepted>>

\* serve_request of connection c
serve_request(c) ==
    \/ Parse(c)
    \/ E405Send(c)
    \/ E405Close(c)
    \/ Load(c)
    \/ GenHeaders(c)
    \/ SendHeader(c)
    \/ Read(c)
    \/ SendChunk(c)
    \/ SendHtml(c)
    \/ Close(c)
    \/ E500Send(c)
    \/ E500Close(c)

Next ==
    \/ start_server
    \/ stop_server
    \/ accept
    \/ wrap_socket
    \/ \E c \in Conns : serve_request(c)

Spec == Init /\ [][Next]_vars

\* the handler threads are scheduled; nothing makes a client connect, send
\* or complete a handshake
FairSpec == Spec /\ \A c \in Conns : WF_vars(serve_request(c))

\* the handler thread of connection c has ended
Ended(c) == conn[c].pc \in {"done", "dead"}

(***************************************************************************)
(* Vocabulary of the properties.                                           *)
(***************************************************************************)
\* the header blocks among the pieces written to a socket
HeaderBlocks(s) == {i \in DOMAIN s : s[i].kind = "headers"}

\* the pieces are exactly one error response for the code: its header block
\* (status line, Date, Server) followed by its page
IsErrorResponse(s, code) ==
    /\ Len(s) = 2
    /\ s[1].kind = "headers" /\ s[1].code = code
    /\ s[1].line = header_status(code)[1]
    /\ s[2].kind = "html" /\ s[2] = generate_error_HTML(code).val

\* the socket of connection c was closed, once
ClosedOnce(c) == sock[c].state = "closed" /\ sock[c].closes = 1

\* the first word of a line is not GET
NotGet(line) ==
    LET request == SplitWords(line, <<>>) IN
    Len(request) >= 1 /\ request[1] # GET

\* the handler of c is past its call of load_file
PastLoad(c) ==
    conn[c].pc \in {"genhdr", "sendhdr", "read", "sendchunk", "sendhtml",
                    "close", "e500_send", "e500_close", "done", "dead"}
    /\ conn[c].filename # <<>>

\* the node the request path of c names
Target(c) == Resolve(fs, full_path(conn[c].filename[1]))

\* the data pieces are consecutive ranges of the file at loc, from its first
\* byte, none empty and none longer than a chunk
IsStream(body, loc) ==
    \A i \in DOMAIN body :
        /\ body[i].kind = "data" /\ body[i].loc = loc
        /\ body[i].len >= 1 /\ body[i].len <= 1024
        /\ body[i].off = IF i = 1 THEN 0 ELSE body[i - 1].off + body[i - 1].len

\* number of bytes the data pieces cover
StreamEnd(body) ==
    IF body = <<>> THEN 0 ELSE body[Len(body)].off + body[Len(body)].len

\* the number a string of decimal digits denotes, -1 when it is no such string
RECURSIVE DecimalValue(_)
DecimalValue(s) ==
    IF s = <<>> THEN -1
    ELSE LET d == {i \in 1..10 : DecimalDigits[i] = s[Len(s)]} IN
         IF d = {} THEN -1
         ELSE IF Len(s) = 1 THEN (CHOOSE i \in d : TRUE) - 1
         ELSE LET v == DecimalValue(SubSeq(s, 1, Len(s) - 1)) IN
              IF v < 0 THEN -1 ELSE 10 * v + (CHOOSE i \in d : TRUE) - 1

IsPrefix(s, t) == Len(s) <= Len(t) /\ s = SubSeq(t, 1, Len(s))

\* the body of a file of the given size, chunk by chunk
RECURSIVE Chunks(_, _, _)
Chunks(loc, size, pos) ==
    IF pos >= size THEN <<>>
    ELSE LET n == IF size - pos < 1024 THEN size - pos ELSE 1024 IN
         <<[kind |-> "data", loc |-> loc, off |-> pos, len |-> n]>>
         \o Chunks(loc, size, pos + n)

\* what serve_request writes for a line when it runs alone and nothing fails
ServeAlone(f, line) ==
    LET p == parse_GET(line) IN
    IF ~p.ok THEN ErrorResponse(405)
    ELSE LET l == load_file(f, p.val) IN
         IF ~l.ok THEN ErrorResponse(500)
         ELSE IF l.status = 200
         THEN <<generate_headers(200, l.file_size, p.val).val>>
              \o Chunks(l.handler.loc, l.file_size, 0)
         ELSE <<generate_headers(l.status, l.file_size, p.val).val, l.handler>>

(***************************************************************************)
(* Properties.                                                             *)
(***************************************************************************)
\* C1: whatever faults occur, at most one status line and header block is
\* written to a connection; a fault after the 200 header block does not put
\* a 500 header block on the same connection.
C1_HeadersAtMostOnce ==
    \A c \in Conns : Cardinality(HeaderBlocks(sock[c].sent)) <= 1

\* C2: on every exit path, including a send that raises inside an except
\* clause, the handler has closed its socket exactly once when its thread
\* ends.
C2_ClosedExactlyOnce ==
    \A c \in Conns : Ended(c) => ClosedOnce(c)

C5_NonGetIs405 ==
    \A c \in Conns :
        NotGet(conn[c].line) =>
            /\ ~PastLoad(c) /\ conn[c].pc # "load"
            /\ conn[c].status = 0 /\ conn[c].opened = <<>>
            /\ Cardinality(HeaderBlocks(sock[c].sent)) >= 1 =>
                   IsErrorResponse(sock[c].sent, 405)
            /\ (Ended(c) /\ conn[c].faults = <<>>) =>
                   /\ IsErrorResponse(sock[c].sent, 405)
                   /\ ClosedOnce(c)
                   /\ conn[c].pc = "done"

\* C5 witness: a POST for an existing, servable file was answered 405.
C5_Witness ==
    \E c \in Conns :
        /\ conn[c].line = RequestLine(POST, <<"/", "a">>)
        /\ Resolve(fs, full_path(<<"/", "a">>)).found
        /\ conn[c].pc = "done" /\ IsErrorResponse(sock[c].sent, 405)

\* the client of c sends no byte, an empty line or a GET with no path, and
\* the handler is reading its line
AwaitsMalformed(c) ==
    conn[c].pc = "parse" /\ (conn[c].stall \/ conn[c].line \in MalformedLines)

\* C6: a connection whose client sends zero bytes, an empty line or a GET
\* with no path is eventually answered 405 and closed, also when the client
\* sends nothing and stays connected (here: unless a fault is raised in
\* the handler or the process is stopped first).
C6_MalformedEventually405 ==
    \A c \in Conns :
        AwaitsMalformed(c) ~>
            \/ IsErrorResponse(sock[c].sent, 405) /\ ClosedOnce(c)
            \/ conn[c].faults # <<>>
            \/ ~Alive

\* the only exception of the handler of c was raised by load_file or by
\* generate_headers, before anything was written
FaultBeforeHeaders(c) ==
    \/ conn[c].faults \in {<<"load_file">>, <<"generate_headers">>}
    \/ conn[c].faults = <<>> /\ PastLoad(c) /\ conn[c].status = 0

\* C7: when load_file or generate_headers raises before any byte was
\* written, the handler ends having written exactly one complete 500
\* response (status line, headers, 500 page) and closed the connection.
C7_FaultGives500 ==
    \A c \in Conns :
        FaultBeforeHeaders(c) =>
            /\ conn[c].pc = "e500_send" => sock[c].sent = <<>>
            /\ conn[c].pc = "e500_close" => IsErrorResponse(sock[c].sent, 500)
            /\ Ended(c) => IsErrorResponse(sock[c].sent, 500) /\ ClosedOnce(c)

\* C7 witness: load_file raised and the handler ended after the 500
\* response and the close.
C7_Witness ==
    \E c \in Conns :
        /\ conn[c].faults = <<"load_file">> /\ Ended(c)
        /\ IsErrorResponse(sock[c].sent, 500) /\ ClosedOnce(c)

\* C8: no failure of one connection, a failed TLS handshake of secure mode
\* included, ends the listener loop: the main thread is never ended by an
\* exception.
C8_ListenerSurvives == main # "crashed"

\* C9: under every interleaving, what a handler that met no fault has
\* written to its connection is a prefix of what its request produces when
\* handled alone, and all of it once the handler has ended.
C9_Isolation ==
    \A c \in Conns :
        conn[c].faults = <<>> =>
            /\ IsPrefix(sock[c].sent, ServeAlone(fs, conn[c].line))
            /\ Ended(c) => sock[c].sent = ServeAlone(fs, conn[c].line)

\* C9 witness: two handlers are streaming two different files at the same
\* time, each with a chunk already written.
C9_Witness ==
    /\ conn[1].pc = "read" /\ conn[2].pc = "read"
    /\ conn[1].handler.loc # conn[2].handler.loc
    /\ Len(sock[1].sent) >= 2 /\ Len(sock[2].sent) >= 2
    /\ conn[1].faults = <<>> /\ conn[2].faults = <<>>

\* C10: every file load_file opens, and every byte range streamed, is of a
\* node under the served root www.
C10_OpenedUnderRoot ==
    \A c \in Conns :
        /\ conn[c].opened # <<>> => UnderRoot(conn[c].opened[1])
        /\ \A i \in DOMAIN sock[c].sent :
               sock[c].sent[i].kind = "data" => UnderRoot(sock[c].sent[i].loc)

(***************************************************************************)
(* The functions called by themselves.  UnitSpec calls parse_GET,          *)
(* load_file and generate_headers directly, on request lines, filesystems  *)
(* and arguments drawn from wider sets than the clients of Spec send; the  *)
(* record of a connection holds the arguments and the results of the calls.*)
(***************************************************************************)
\* the empty filesystem, and a filesystem of one optional node
NoNode == [loc \in {} |-> Dir(FALSE, FALSE)]
OptNode(loc, n) == IF n = <<>> THEN NoNode ELSE (loc :> n[1])

\* what www is: missing, a directory (searchable or not), a plain file
RootNodes == {<<>>, <<Dir(TRUE, TRUE)>>, <<Dir(TRUE, FALSE)>>, <<File(TRUE, FALSE, 4)>>}

\* what www/index.html is: missing, a file of each access class, a directory
IndexNodes ==
    {<<>>, <<File(TRUE, FALSE, 3)>>, <<File(TRUE, TRUE, 3)>>, <<File(FALSE, FALSE, 3)>>,
     <<Dir(TRUE, FALSE)>>, <<Dir(TRUE, TRUE)>>}

\* www/a and a file whose name holds a '?', www/a?b, are always there
UnitFS(root, idx) ==
    (Cwd :> Dir(TRUE, TRUE))
    @@ OptNode(<<directory>>, root)
    @@ OptNode(<<directory, IndexName>>, idx)
    @@ (<<directory, <<"a">>>> :> File(TRUE, FALSE, 1025))
    @@ (<<directory, <<"a", "?", "b">>>> :> File(TRUE, FALSE, 6))

UnitFileSystems == {UnitFS(root, idx) : root \in RootNodes, idx \in IndexNodes}

\* request paths without a '?'
UnitPaths ==
    { <<"/">>, IndexHtml, <<"/", "/">>, <<"/", ".">>,
      <<"/", "a">>, <<"/", "a", "%", "3", "f", "b">> }

\* what follows the '?'
UnitQueries == { <<>>, <<"b">>, <<"?">>, <<"%", "3", "f">>, <<"/", "a">> }

\* P?Q
WithQuery(P, Q) == P \o <<"?">> \o Q

UnitLines ==
    {RequestLine(GET, P) : P \in UnitPaths}
    \cup {RequestLine(GET, WithQuery(P, Q)) : P \in UnitPaths, Q \in UnitQueries}

UnitInit ==
    /\ main = "start"
    /\ listener = "unbound"
    /\ listener = "unbound"
    /\ secure = FALSE
    /\ fs \in UnitFileSystems
    /\ accepted = 0
    /\ sock = [c \in Conns |-> NoSock]
    /\ conn = [c \in Conns |-> IdleConn]

\* filename = self.parse_GET(sock), the client having sent the line
call_parse_GET(c) ==
    /\ conn[c].pc = "idle"
    /\ \E line \in UnitLines :
          LET p == parse_GET(line) IN
          Set(c, IF p.ok
                 THEN [conn[c] EXCEPT !.pc = "parsed", !.line = line,
                                      !.filename = <<p.val>>]
                 ELSE [conn[c] EXCEPT !.pc = "raised", !.line = line])
    /\ UNCHANGED <<main, listener, secure, fs, accepted, sock>>

\* handler, file_size, status = self.load_file(filename)
call_load_file(c) ==
    LET r == conn[c]
        l == load_file(fs, r.filename[1])
    IN  /\ r.pc = "parsed"
        /\ Set(c, IF l.ok
                  THEN [r EXCEPT !.pc = "loaded", !.handler = l.handler,
                                 !.file_size = l.file_size, !.status = l.status,
                                 !.fopen = l.opened, !.opened = l.opened]
                  ELSE [r EXCEPT !.pc = "raised"])
        /\ UNCHANGED <<main, listener, secure, fs, accepted, sock>>

\* the five statuses the server implements
StatusCodes == {200, 403, 404, 405, 500}

\* header = self.generate_headers(code, file_size, filename)
call_generate_headers(c) ==
    /\ conn[c].pc = "idle"
    /\ \E code \in StatusCodes, file_size \in {0, 1025},
          filename \in {<<"/">>, IndexHtml, <<"/", "a">>} :
          LET h == generate_headers(code, file_size, filename) IN
          Set(c, IF h.ok
                 THEN [conn[c] EXCEPT !.pc = "formatted", !.status = code,
                                      !.file_size = file_size,
                                      !.filename = <<filename>>,
                                      !.header = h.val]
                 ELSE [conn[c] EXCEPT !.pc = "raised", !.status = code])
    /\ UNCHANGED <<main, listener, secure, fs, accepted, sock>>

UnitNext ==
    \E c \in Conns :
        \/ call_parse_GET(c)
        \/ call_load_file(c)
        \/ call_generate_headers(c)

UnitSpec == UnitInit /\ [][UnitNext]_vars

\* the bytes of a response body: the content of the opened file, or the page
Body(c) == conn[c].handler

\* C11: on every filesystem, load_file of '/' and of '/index.html' return
\* the same status and the same body; any other path, '//' and '/.'
\* included, is resolved as www + path, unchanged.
C11_RootIsIndex ==
    \A c, d \in Conns :
        /\ (/\ conn[c].filename = <<<<"/">>>> /\ conn[d].filename = <<IndexHtml>>
            /\ conn[c].pc \in {"loaded", "raised"}
            /\ conn[d].pc \in {"loaded", "raised"}) =>
              /\ conn[c].pc = conn[d].pc
              /\ conn[c].status = conn[d].status
              /\ Body(c) = Body(d)
              /\ conn[c].file_size = conn[d].file_size
        /\ (conn[c].pc = "loaded" /\ conn[c].filename # <<<<"/">>>>) =>
              LET t == Resolve(fs, directory \o conn[c].filename[1]) IN
              /\ conn[c].status = 404 <=> ~t.found
              /\ conn[c].status = 200 => conn[c].opened = <<t.loc>>

\* C11 witness: '/' and '/index.html' were both answered 200 with the
\* content of www/index.html, and '//' on the same filesystem was not.
C11_Witness ==
    /\ conn[1].filename = <<<<"/">>>> /\ conn[2].filename = <<IndexHtml>>
    /\ conn[1].pc = "loaded" /\ conn[2].pc = "loaded"
    /\ conn[1].status = 200
    /\ conn[1].opened = <<<<directory, IndexName>>>>
    /\ load_file(fs, <<"/", "/">>).status = 403

\* C12: for every path P without a '?' and every suffix Q, parse_GET of a
\* GET for P?Q returns what it returns for P, the percent-decoding of P, so
\* load_file resolves both to the same file with the same status and body.
C12_QueryIgnored ==
    \A c, d \in Conns : \A P \in UnitPaths, Q \in UnitQueries :
        (/\ conn[c].line = RequestLine(GET, P)
         /\ conn[d].line = RequestLine(GET, WithQuery(P, Q))) =>
            /\ conn[c].filename = <<unquote(P)>>
            /\ conn[d].filename = <<unquote(P)>>
            /\ (/\ conn[c].pc \in {"loaded", "raised"}
                /\ conn[d].pc \in {"loaded", "raised"}) =>
                  /\ conn[c].pc = conn[d].pc
                  /\ conn[c].status = conn[d].status
                  /\ conn[c].opened = conn[d].opened
                  /\ Body(c) = Body(d)
                  /\ conn[c].file_size = conn[d].file_size

\* C12 witness: '/a%3fb' and '/a%3fb?%3f' both opened the file www/a?b.
C12_Witness ==
    /\ conn[1].line = RequestLine(GET, <<"/", "a", "%", "3", "f", "b">>)
    /\ conn[2].line = RequestLine(GET, WithQuery(<<"/", "a", "%", "3", "f", "b">>,
                                                 <<"%", "3", "f">>))
    /\ conn[1].status = 200 /\ conn[2].status = 200
    /\ conn[1].opened = <<<<directory, <<"a", "?", "b">>>>>>
    /\ conn[2].opened = conn[1].opened

\* C15: every header block generate_headers returns for 200, 403, 404, 405
\* and 500 has its status line, a Date and a Server header, neither empty;
\* it has Content-Type and Content-Length exactly when the status is 200.
C15_HeaderFields ==
    \A c \in Conns :
        /\ conn[c].pc = "formatted" => conn[c].header.kind = "headers"
        /\ conn[c].header.kind = "headers" =>
              LET h == conn[c].header.headers
                  code == conn[c].header.code
              IN  /\ code \in StatusCodes
                  /\ conn[c].header.line = header_status(code)[1]
                  /\ "Date" \in DOMAIN h /\ h["Date"] # ""
                  /\ "Server" \in DOMAIN h /\ h["Server"] # ""
                  /\ "Content-Type" \in DOMAIN h <=> code = 200
                  /\ "Content-Length" \in DOMAIN h <=> code = 200
                  /\ DOMAIN h \subseteq {"Date", "Server", "Content-Type", "Content-Length"}

\* C15 witness: a 200 block with its four headers beside a 500 block with
\* Date and Server only.
C15_Witness ==
    /\ conn[1].pc = "formatted" /\ conn[1].header.code = 200
    /\ DOMAIN conn[1].header.headers = {"Date", "Server", "Content-Type", "Content-Length"}
    /\ conn[2].pc = "formatted" /\ conn[2].header.code = 500
    /\ DOMAIN conn[2].header.headers = {"Date", "Server"}

\* the status of the response written to connection c: the code of the last
\* header block on it, 0 when there is none
SentStatus(c) ==
    LET hb == HeaderBlocks(sock[c].sent) IN
    IF hb = {} THEN 0
    ELSE sock[c].sent[CHOOSE i \in hb : \A j \in hb : j <= i].code

\* the handler of c has ended after a sock.close() that returned
Completed(c) ==
    /\ Ended(c) /\ ClosedOnce(c)
    /\ \A i \in DOMAIN conn[c].faults : conn[c].faults[i] # "close"

\* C13: a handler that has ended with its connection closed has emitted
\* exactly one log line, on the 500 path too, and the status in the line is
\* the status of the response it sent: 405, 500 when the catch-all branch
\* ran, the status of load_file otherwise.
C13_OneLogLine ==
    \A c \in Conns :
        /\ Len(conn[c].log) <= 1
        /\ Completed(c) =>
              /\ Len(conn[c].log) = 1
              /\ conn[c].log[1].status = SentStatus(c)

\* C14: once bind has failed in start_server the main thread is in the
\* except clause or has exited through sys.exit, the failing shutdown of
\* stop_server notwithstanding: wait_loop is not entered, no connection is
\* accepted and no handler is started.
C14_BindFailureExits ==
    (listener = "unbound" /\ main # "start") =>
        /\ main \in {"bind_failed", "exited"}
        /\ accepted = 0
        /\ \A c \in Conns : conn[c] = IdleConn /\ sock[c] = NoSock

\* C14 witness: bind failed and the process has exited.
C14_Witness == listener = "unbound" /\ main = "exited" /\ accepted = 0

\* the main thread takes the steps that are its own, and clients keep
\* connecting while the listener waits for them; nothing makes an accepted
\* client send its request or complete its handshake
ListenerFairSpec ==
    /\ FairSpec
    /\ WF_vars(start_server)
    /\ WF_vars(main = "bind_failed" /\ stop_server)
    /\ WF_vars(accept)

\* C16: in plain and in secure mode, whatever the accepted clients do or
\* fail to do, the listener that has accepted n connections accepts the
\* next one that arrives (unless the process ends first): no step of
\* wait_loop between two accepts waits for a client.
C16_AcceptNotDelayed ==
    \A n \in 0..(MaxConns - 1) :
        (accepted = n /\ main \in {"wait_loop", "wrap_socket"}) ~>
            (accepted > n \/ main \in {"exited", "crashed"})

\* C17: a file is opened only by the 200 branch of load_file, and a handler
\* that has ended, on any path, a fault while sending the header or a chunk
\* included, has called close() on every file it opened.
C17_FileHandlesReleased ==
    \A c \in Conns :
        /\ conn[c].opened # <<>> =>
              LET t == Target(c) IN
              t.found /\ fs[t.loc].r /\ ~fs[t.loc].x /\ conn[c].opened = <<t.loc>>
        /\ Ended(c) => conn[c].fopen = <<>>

\* serve_request was started for connection c
Dispatched(c) == conn[c].pc \notin {"idle", "accepted"}

\* C18: after stop_server has ended the main thread, every handler that was
\* dispatched before, has not ended and has its request line to read can
\* still take its next step, so that it goes on to send its response and
\* close its connection.
C18_HandlersOutliveShutdown ==
    \A c \in Conns :
        (main = "exited" /\ Dispatched(c) /\ ~Ended(c) /\ ~conn[c].stall) =>
            ENABLED serve_request(c)

\* the error pages generate_error_HTML has a message for
ErrorPages == {generate_error_HTML(code).val : code \in StatusCodes \ {200}}

\* C19: the status serve_request passes to generate_headers is one of 200,
\* 403, 404, 405, 500 and generate_error_HTML is called with one of the
\* last four: every header block and page written is of these statuses, and
\* generate_headers never raises for want of a status line.
C19_StatusCodesKnown ==
    \A c \in Conns :
        /\ conn[c].status \in {0, 200, 403, 404}
        /\ conn[c].pc = "genhdr" => header_status(conn[c].status) # <<>>
        /\ conn[c].status \in {403, 404} => conn[c].handler \in ErrorPages
        /\ (conn[c].faults = <<>> /\ conn[c].pc \in {"e500_send", "e500_close"}) =>
              conn[c].status = 0
        /\ \A i \in DOMAIN sock[c].sent :
              LET piece == sock[c].sent[i] IN
              /\ piece.kind = "headers" =>
                    piece.code \in StatusCodes /\ piece.line = header_status(piece.code)[1]
              /\ piece.kind = "html" => piece \in ErrorPages

\* C19 witness: one connection has the 404 response load_file's status led
\* to, the other the 500 response of the catch-all branch.
C19_Witness ==
    \E c, d \in Conns :
        /\ conn[c].status = 404 /\ IsErrorResponse(sock[c].sent, 404)
        /\ IsErrorResponse(sock[d].sent, 500)

====
